---- MODULE Spec2Model ----
(***************************************************************************)
(* Two command-line drivers of the terrain-file tools:                     *)
(*   - tools/offsetFix_msvc/main.cpp : the offset-repair tool (SpecFix)     *)
(*   - tools/fixes/main.cpp          : the legacy -> current converter      *)
(*                                     (SpecConv)                           *)
(* The five repair steps are declared in offsetFix.h; their bodies are     *)
(* modelled from section 4.5 / 4.2 of the specification.                    *)
(***************************************************************************)
EXTENDS Integers, Sequences, FiniteSets, TLC

\* ------------------------------------------------------------------ bounds
\* Number of index slots (the source has 256: positionsMCNK[256], positions[256]).
NumSlots == 2
\* Largest number of records in one placement chunk of an input file.
MaxPlacements == 1
\* Number of tile numbers of the legacy world table (the format has 64*64).
NumTiles == 3
\* Largest legacy offset-table value of an input world table.
MaxOffset == 2

VARIABLES
    \* ---- offsetFix_msvc/main.cpp
    argc,       \* number of command-line words, program name included
    inPath,     \* argv[1]
    outPath,    \* argv[2]
    fs,         \* the filesystem: path -> file content, or Absent
    fs0,        \* history: the filesystem when the invocation started
    pc,         \* position of main
    offData,    \* OffsetFixData offData
    exitCode,   \* main's return value, Running until it returns
    errOut,     \* what was printed to std::cerr
    stdOut,     \* what was printed to std::cout
    log,        \* history: the repair steps that completed, in order
    threw,      \* history: the repair step that raised, or "none"
    fatal,      \* history: which fatal condition the run met, or "none"
    pass,       \* history: 1 for the first invocation, 2 for a re-run on its output
    firstOut,   \* history: the output file of the first invocation
    \* ---- fixes/main.cpp
    cargc,      \* number of command-line words
    cpc,        \* position of main
    adtsOffsets, \* testWdtAlpha.getAdtOffsetsInMain()
    adtsNums,   \* testWdtAlpha.getExistingAdtsNumbers()
    currentAdt, \* loop counter
    adtFiles,   \* tile number -> the area file written for it, or NoAreaFile
    writeCount, \* history: tile number -> how many times its area file was written
    failedTiles, \* history: the tiles whose decode / convert / write raised
    wdtWritten  \* testWdt.toFile() has run

fixVars == <<argc, inPath, outPath, fs, fs0, pc, offData, exitCode, errOut, stdOut,
             log, threw, fatal, pass, firstOut>>
convVars == <<cargc, cpc, adtsOffsets, adtsNums, currentAdt, adtFiles, writeCount,
              failedTiles, wdtWritten>>
vars == <<fixVars, convVars>>

\* What a path that names no file holds: no chunk of a real file carries this tag.
Absent == <<[tag |-> "absent", len |-> 0, body |-> << >>]>>
\* What a tile number with no area file holds.
NoAreaFile == [num |-> 0 - 1, offset |-> 0 - 1]
Running == -1
Paths == {"a", "b"}
Slots == 0 .. (NumSlots - 1)
Tiles == 0 .. (NumTiles - 1)

\* ------------------------------------------------------- the chunk format
\* A file is a sequence of chunks [tag, len, body]: an 8-byte header (4-byte tag,
\* 32-bit payload length) followed by len payload bytes.
HeaderSize == 8
ChunkSize(c) == HeaderSize + c.len

\* Byte position of the k-th chunk of file f.
RECURSIVE ChunkPos(_, _)
ChunkPos(f, k) == IF k = 1 THEN 0 ELSE ChunkPos(f, k - 1) + ChunkSize(f[k - 1])

\* The chunks of f carrying tag, top to bottom, from chunk k on.
RECURSIVE ScanTags(_, _, _)
ScanTags(f, tag, k) ==
    IF k > Len(f) THEN << >>
    ELSE (IF f[k].tag = tag THEN <<k>> ELSE << >>) \o ScanTags(f, tag, k + 1)

\* struct MCIN { UInt32 offset, size, temp1, temp2; }
MCIN(o, s, t1, t2) == [offset |-> o, size |-> s, temp1 |-> t1, temp2 |-> t2]
McinEntrySize == 16

\* Placement records (section 3), tightly packed: nameIndex 4, position 12,
\* rotation 12, scale 4 (doodad) or bounding box 24 (object), uniqueId 4, flags 2.
DoodadRecSize == 38
ObjectRecSize == 58
Doodad(j, p) == [nameIndex |-> j - 1, uniqueId |-> 10 + j, pos |-> p,
                 rot |-> <<0, 90, 0>>, extent |-> 1024, flags |-> 0]
Object(j, p) == [nameIndex |-> j - 1, uniqueId |-> 20 + j, pos |-> p,
                 rot |-> <<0, 0, 45>>, extent |-> <<0, 0, 0, 1, 1, 1>>, flags |-> 1]

Shift(p, d) == <<p[1] + d[1], p[2] + d[2], p[3] + d[3]>>

\* ------------------------------------------------------------ input files
VerChunk == [tag |-> "MVER", len |-> 4, body |-> <<18>>]
McnkChunk(l) == [tag |-> "MCNK", len |-> l, body |-> <<l>>]
McnkLens == {128, 256}

\* The terrain chunks of an input file: up to NumSlots of them.
McnkRuns == UNION {[1 .. n -> McnkLens] : n \in 0 .. NumSlots}

\* The index chunk as found in an input file whose terrain chunks are ms, placed
\* after the chunks "before": all zeros, exact, or stale (offsets left over from
\* before an edit, entries left over for tiles that are gone).
IndexKinds == {"zero", "good", "stale"}
IndexEntries(kind, t, base, ms) ==
    [i \in Slots |->
        LET here == base + ChunkPos(ms, i + 1)
        IN  CASE kind = "zero"  -> MCIN(0, 0, t * (i + 1), t * (i + 3))
              [] kind = "good"  -> IF i < Len(ms)
                                     THEN MCIN(here, ms[i + 1].len, t * (i + 1), t * (i + 3))
                                     ELSE MCIN(0, 0, t * (i + 1), t * (i + 3))
              [] kind = "stale" -> MCIN(base + 300 * i + 4, 64, t * (i + 1), t * (i + 3))]

McinChunk(kind, t, base, ms) ==
    [tag |-> "MCIN", len |-> McinEntrySize * NumSlots, body |-> IndexEntries(kind, t, base, ms)]
MddfChunk(n) ==
    [tag |-> "MDDF", len |-> DoodadRecSize * n,
     body |-> [j \in 1 .. n |-> Doodad(j, <<j, 2 * j, 7>>)]]
ModfChunk(n) ==
    [tag |-> "MODF", len |-> ObjectRecSize * n,
     body |-> [j \in 1 .. n |-> Object(j, <<5, j, 3 * j>>)]]

\* Chunk order of a current-generation area file: version, index, placements, terrain.
RECURSIVE SizeOf(_)
SizeOf(f) == IF f = << >> THEN 0 ELSE ChunkSize(Head(f)) + SizeOf(Tail(f))

MkFile(hasIdx, kind, t, nd, nw, lens) ==
    LET ms    == [i \in 1 .. Len(lens) |-> McnkChunk(lens[i])]
        dd    == IF nd < 0 THEN << >> ELSE <<MddfChunk(nd)>>
        ww    == IF nw < 0 THEN << >> ELSE <<ModfChunk(nw)>>
        idxSz == IF hasIdx THEN HeaderSize + McinEntrySize * NumSlots ELSE 0
        base  == ChunkSize(VerChunk) + idxSz + SizeOf(dd) + SizeOf(ww)
        idx   == IF hasIdx THEN <<McinChunk(kind, t, base, ms)>> ELSE << >>
    IN  <<VerChunk>> \o idx \o dd \o ww \o ms

\* nd, nw = -1: the placement chunk is absent.
InputFiles ==
    {MkFile(TRUE, kind, t, nd, nw, lens) :
        kind \in IndexKinds, t \in {0, 1},
        nd \in -1 .. MaxPlacements, nw \in -1 .. MaxPlacements, lens \in McnkRuns}
    \cup {MkFile(FALSE, "zero", 0, nd, nw, lens) :
        nd \in {0, MaxPlacements}, nw \in {0, MaxPlacements}, lens \in McnkRuns}

\* A file some earlier run left at the output path.
OldOutput == <<VerChunk, McnkChunk(128)>>

\* ------------------------------------------------- the five repair steps
\* Mutants of OffDataInit: an origin offset left set (xf, zOff), and the struct
\* declared without "= {}", so that its arrays hold what the stack held.
OffDataShifted ==
    [offset        |-> [x |-> 0, y |-> 0, xf |-> 1, zf |-> 0, zOff |-> 0,
                        wdtXOff |-> 0, wdtYOff |-> 0, wdtZOff |-> 0],
     offsetMDDF    |-> 0,
     offsetMODF    |-> 0,
     positionsMCNK |-> [i \in Slots |-> 0],
     positions     |-> [i \in Slots |-> MCIN(0, 0, 0, 0)]]
OffDataRaised ==
    [offset        |-> [x |-> 0, y |-> 0, xf |-> 0, zf |-> 0, zOff |-> 2,
                        wdtXOff |-> 0, wdtYOff |-> 0, wdtZOff |-> 0],
     offsetMDDF    |-> 0,
     offsetMODF    |-> 0,
     positionsMCNK |-> [i \in Slots |-> 0],
     positions     |-> [i \in Slots |-> MCIN(0, 0, 0, 0)]]
OffDataGarbage ==
    [offset        |-> [x |-> 0, y |-> 0, xf |-> 0, zf |-> 0, zOff |-> 0,
                        wdtXOff |-> 0, wdtYOff |-> 0, wdtZOff |-> 0],
     offsetMDDF    |-> 0,
     offsetMODF    |-> 0,
     positionsMCNK |-> [i \in Slots |-> 52],
     positions     |-> [i \in Slots |-> MCIN(52, 52, 52, 52)]]

\* OffsetFixData offData = {};   every field zero-initialised
OffDataInit ==
    [offset        |-> [x |-> 0, y |-> 0, xf |-> 0, zf |-> 0, zOff |-> 0,
                        wdtXOff |-> 0, wdtYOff |-> 0, wdtZOff |-> 0],
     offsetMDDF    |-> 0,
     offsetMODF    |-> 0,
     positionsMCNK |-> [i \in Slots |-> 0],
     positions     |-> [i \in Slots |-> MCIN(0, 0, 0, 0)]]

\* The translation added to every placement position.
Delta(off) == <<off.xf, off.zOff, off.zf>>

Steps == {"findMCNKs", "findMDDFandMODF", "fixMCNKs", "fixDoodads", "fixWMOs"}

\* The chunk of f that starts at byte position p (0: there is none).
ChunkAt(f, p) ==
    LET ks == {k \in 1 .. Len(f) : ChunkPos(f, k) = p}
    IN  IF ks = {} THEN 0 ELSE CHOOSE k \in ks : TRUE

\* findMCNKs: walk the file top to bottom; the i-th terrain chunk met fills slot i.
findMCNKs(f, d) ==
    LET ks == ScanTags(f, "MCNK", 1)
    IN  [d EXCEPT
            !.positionsMCNK = [i \in Slots |->
                IF i < Len(ks) THEN ChunkPos(f, ks[i + 1]) ELSE @[i]],
            !.positions = [i \in Slots |->
                IF i < Len(ks)
                  THEN [@[i] EXCEPT !.offset = ChunkPos(f, ks[i + 1]), !.size = f[ks[i + 1]].len]
                  ELSE @[i]]]

\* findMDDFandMODF: find the two placement chunks by tag and record where they are.
findMDDFandMODF(f, d) ==
    LET dd == ScanTags(f, "MDDF", 1)
        ww == ScanTags(f, "MODF", 1)
    IN  [d EXCEPT !.offsetMDDF = ChunkPos(f, dd[1]), !.offsetMODF = ChunkPos(f, ww[1])]

\* Mutant of fixMCNKs: the whole 16-byte entries of offData.positions are written.
fixMCNKsWholeEntry(f, d) ==
    LET k == ScanTags(f, "MCIN", 1)[1]
    IN  [f EXCEPT ![k].body = [i \in Slots |-> d.positions[i]]]

\* fixMCNKs: write the rebuilt (offset, size) pairs into the index chunk's payload.
fixMCNKs(f, d) ==
    LET k == ScanTags(f, "MCIN", 1)[1]
    IN  [f EXCEPT ![k].body = [i \in Slots |->
            [@[i] EXCEPT !.offset = d.positions[i].offset, !.size = d.positions[i].size]]]

\* fixDoodads / fixWMOs: add the delta to every record of the placement chunk at p.
FixPlacements(f, p, dl) ==
    LET k == ChunkAt(f, p)
    IN  [f EXCEPT ![k].body = [j \in DOMAIN @ |-> [@[j] EXCEPT !.pos = Shift(@, dl)]]]
fixDoodads(f, d) == FixPlacements(f, d.offsetMDDF, Delta(d.offset))
fixWMOs(f, d) == FixPlacements(f, d.offsetMODF, Delta(d.offset))

\* MissingExpectedChunk: the chunk a step needs is not where it looks for it.
TagAt(f, p, tag) == ChunkAt(f, p) # 0 /\ f[ChunkAt(f, p)].tag = tag
StepMissing(s, f, d) ==
    CASE s = "findMCNKs"       -> FALSE
      [] s = "findMDDFandMODF" -> ScanTags(f, "MDDF", 1) = << >> \/ ScanTags(f, "MODF", 1) = << >>
      [] s = "fixMCNKs"        -> ScanTags(f, "MCIN", 1) = << >>
      [] s = "fixDoodads"      -> ~TagAt(f, d.offsetMDDF, "MDDF")
      [] s = "fixWMOs"         -> ~TagAt(f, d.offsetMODF, "MODF")

\* What a step that completes leaves in offData and in the file.
StepData(s, f, d) ==
    CASE s = "findMCNKs"       -> findMCNKs(f, d)
      [] s = "findMDDFandMODF" -> findMDDFandMODF(f, d)
      [] OTHER                 -> d
StepFile(s, f, d) ==
    CASE s = "fixMCNKs"   -> fixMCNKs(f, d)
      [] s = "fixDoodads" -> fixDoodads(f, d)
      [] s = "fixWMOs"    -> fixWMOs(f, d)
      [] OTHER            -> f

\* ------------------------------------------- offsetFix_msvc/main.cpp: main
\* Mutant of StepAfter: the index is patched before the placement chunks are found.
StepAfterPatchFirst(s) ==
    CASE s = "findMCNKs"       -> "fixMCNKs"
      [] s = "fixMCNKs"        -> "findMDDFandMODF"
      [] s = "findMDDFandMODF" -> "fixDoodads"
      [] s = "fixDoodads"      -> "fixWMOs"
      [] s = "fixWMOs"         -> "save"

\* The statement main reaches when a step of the try block returns.
FirstStep == "findMCNKs"
StepAfter(s) ==
    CASE s = "findMCNKs"       -> "findMDDFandMODF"
      [] s = "findMDDFandMODF" -> "fixMCNKs"
      [] s = "fixMCNKs"        -> "fixDoodads"
      [] s = "fixDoodads"      -> "fixWMOs"
      [] s = "fixWMOs"         -> "save"

\* Mutant of OnException: the handler prints and does not return.
OnExceptionNoReturn == [pc |-> "save", exitCode |-> Running]

\* catch (const std::exception& e) { std::cerr << ...; return 1; }
OnException == [pc |-> "exit", exitCode |-> 1]

\* if (argc < 3) { std::cerr << usage; return 1; }
TooFewArgs(n) == n < 3

InitFix ==
    /\ argc \in 1 .. 3
    /\ inPath = "a"
    /\ outPath \in (IF TooFewArgs(argc) THEN {"b"} ELSE Paths)
    /\ fs \in IF TooFewArgs(argc)
                THEN {[p \in Paths |-> Absent]}
                ELSE {[p \in Paths |-> IF p = "a" THEN f ELSE o] :
                         f \in InputFiles \cup {Absent}, o \in {Absent, OldOutput}}
    /\ fs0 = fs
    /\ pc = "args"
    /\ offData = OffDataInit
    /\ exitCode = Running
    /\ errOut = << >>
    /\ stdOut = << >>
    /\ log = << >>
    /\ threw = "none"
    /\ fatal = "none"
    /\ pass = 1
    /\ firstOut = Absent
    \* fixes/main.cpp is not running
    /\ cargc = 0
    /\ cpc = "idle"
    /\ adtsOffsets = [t \in Tiles |-> 0]
    /\ adtsNums = << >>
    /\ currentAdt = 0
    /\ adtFiles = [t \in Tiles |-> NoAreaFile]
    /\ writeCount = [t \in Tiles |-> 0]
    /\ failedTiles = {}
    /\ wdtWritten = FALSE

CheckArgs ==
    /\ UNCHANGED convVars
    /\ pc = "args"
    /\ IF TooFewArgs(argc)
         THEN /\ errOut' = Append(errOut, "Usage: offsetFix <input.wdt> <output.wdt>")
              /\ exitCode' = 1
              /\ fatal' = "args"
              /\ pc' = "exit"
         ELSE /\ pc' = "open"
              /\ UNCHANGED <<errOut, exitCode, fatal>>
    /\ UNCHANGED <<argc, inPath, outPath, fs, fs0, offData, stdOut, log, threw, pass, firstOut>>

\* std::fstream zoneFile(argv[1], in | out | binary): opens an existing file only.
OpenInput ==
    /\ UNCHANGED convVars
    /\ pc = "open"
    /\ IF fs[inPath] = Absent
         THEN /\ errOut' = Append(errOut, "Error opening file")
              /\ exitCode' = 1
              /\ fatal' = "open"
              /\ pc' = "exit"
              /\ UNCHANGED offData
         ELSE /\ offData' = OffDataInit
              /\ pc' = FirstStep
              /\ UNCHANGED <<errOut, exitCode, fatal>>
    /\ UNCHANGED <<argc, inPath, outPath, fs, fs0, stdOut, log, threw, pass, firstOut>>

\* One step of the try block returns: its writes go to the file behind zoneFile.
StepOk ==
    /\ UNCHANGED convVars
    /\ pc \in Steps
    /\ ~StepMissing(pc, fs[inPath], offData)
    /\ offData' = StepData(pc, fs[inPath], offData)
    /\ fs' = [fs EXCEPT ![inPath] = StepFile(pc, @, offData)]
    /\ log' = Append(log, pc)
    /\ pc' = StepAfter(pc)
    /\ UNCHANGED <<argc, inPath, outPath, fs0, exitCode, errOut, stdOut, threw, fatal,
                   pass, firstOut>>

\* One step of the try block raises (a chunk it needs is missing, or its stream
\* I/O fails): the handler prints and returns; zoneFile is closed by its destructor.
StepThrow ==
    /\ UNCHANGED convVars
    /\ pc \in Steps
    /\ threw' = pc
    /\ fatal' = "step"
    /\ errOut' = Append(errOut, "Error processing file")
    /\ pc' = OnException.pc
    /\ exitCode' = OnException.exitCode
    /\ UNCHANGED <<argc, inPath, outPath, fs, fs0, offData, stdOut, log, pass, firstOut>>

\* zoneFile.close(); std::ofstream outFile(argv[2]) cannot be created.
SaveFail ==
    /\ UNCHANGED convVars
    /\ pc = "save"
    /\ errOut' = Append(errOut, "Error creating output file")
    /\ exitCode' = 1
    /\ fatal' = "create"
    /\ pc' = "exit"
    /\ UNCHANGED <<argc, inPath, outPath, fs, fs0, offData, stdOut, log, threw, pass, firstOut>>

\* zoneFile.close(); outFile is created (truncated), then argv[1] is opened for
\* reading and copied into it.
SaveOk ==
    /\ UNCHANGED convVars
    /\ pc = "save"
    /\ LET created == [fs EXCEPT ![outPath] = << >>]
       IN  fs' = [created EXCEPT ![outPath] = created[inPath]]
    /\ stdOut' = stdOut \o <<"Successfully processed", "Output saved to">>
    /\ exitCode' = 0
    /\ pc' = "exit"
    /\ UNCHANGED <<argc, inPath, outPath, fs0, offData, errOut, log, threw, fatal, pass,
                   firstOut>>

\* The tool is run again, on the output of a run that returned 0.
Rerun ==
    /\ UNCHANGED convVars
    /\ pc = "exit"
    /\ exitCode = 0
    /\ pass = 1
    /\ pass' = 2
    /\ firstOut' = fs[outPath]
    /\ inPath' = outPath
    /\ outPath' = inPath
    /\ fs0' = fs
    /\ pc' = "args"
    /\ offData' = OffDataInit
    /\ exitCode' = Running
    /\ errOut' = << >>
    /\ stdOut' = << >>
    /\ log' = << >>
    /\ threw' = "none"
    /\ fatal' = "none"
    /\ UNCHANGED <<argc, fs>>

\* ---------------------------------------------------- fixes/main.cpp: main
\* getExistingAdtsNumbers(): the tile numbers whose offset-table entry is not 0,
\* in ascending order.
RECURSIVE ExistingFrom(_, _)
ExistingFrom(offs, t) ==
    IF t >= NumTiles THEN << >>
    ELSE (IF offs[t] # 0 THEN <<t>> ELSE << >>) \o ExistingFrom(offs, t + 1)
ExistingAdtsNumbers(offs) == ExistingFrom(offs, 0)

\* Mutant of TileOffset: the offset table is indexed by the loop counter.
TileOffsetByCounter(offs, nums, cur) == offs[cur]

\* AdtAlpha(wdtName, adtsOffsets[adtsNums[currentAdt]], adtsNums[currentAdt])
TileNumber(nums, cur) == nums[cur + 1]
TileOffset(offs, nums, cur) == offs[nums[cur + 1]]

InitConv ==
    /\ cargc \in 1 .. 2
    /\ cpc = "args"
    /\ adtsOffsets \in [Tiles -> 0 .. MaxOffset]
    /\ adtsNums = << >>
    /\ currentAdt = 0
    /\ adtFiles = [t \in Tiles |-> NoAreaFile]
    /\ writeCount = [t \in Tiles |-> 0]
    /\ failedTiles = {}
    /\ wdtWritten = FALSE
    \* offsetFix_msvc/main.cpp is not running
    /\ argc = 0
    /\ inPath = "a"
    /\ outPath = "b"
    /\ fs = [p \in Paths |-> Absent]
    /\ fs0 = fs
    /\ pc = "idle"
    /\ offData = OffDataInit
    /\ exitCode = Running
    /\ errOut = << >>
    /\ stdOut = << >>
    /\ log = << >>
    /\ threw = "none"
    /\ fatal = "none"
    /\ pass = 1
    /\ firstOut = Absent

\* if (argc < 2) { std::cerr << ...; return 1; }
ConvArgs ==
    /\ UNCHANGED fixVars
    /\ cpc = "args"
    /\ cpc' = IF cargc < 2 THEN "usage" ELSE "wdt"
    /\ UNCHANGED <<cargc, adtsOffsets, adtsNums, currentAdt, adtFiles, writeCount,
                   failedTiles, wdtWritten>>

\* The world table is read, converted and written; the tile lists are fetched.
ConvWdt ==
    /\ UNCHANGED fixVars
    /\ cpc = "wdt"
    /\ wdtWritten' = TRUE
    /\ adtsNums' = ExistingAdtsNumbers(adtsOffsets)
    /\ currentAdt' = 0
    /\ cpc' = "loop"
    /\ UNCHANGED <<cargc, adtsOffsets, adtFiles, writeCount, failedTiles>>

\* One iteration of the loop: the tile is decoded, converted and written.
TileOk ==
    /\ UNCHANGED fixVars
    /\ cpc = "loop"
    /\ currentAdt < Len(adtsNums)
    /\ LET n == TileNumber(adtsNums, currentAdt)
       IN  /\ adtFiles' = [adtFiles EXCEPT ![n] =
                  [num |-> n, offset |-> TileOffset(adtsOffsets, adtsNums, currentAdt)]]
           /\ writeCount' = [writeCount EXCEPT ![n] = @ + 1]
    /\ currentAdt' = currentAdt + 1
    /\ UNCHANGED <<cargc, cpc, adtsOffsets, adtsNums, failedTiles, wdtWritten>>

\* One iteration of the loop raises: no handler encloses the loop, so the
\* exception leaves main and the program is terminated.
TileThrow ==
    /\ UNCHANGED fixVars
    /\ cpc = "loop"
    /\ currentAdt < Len(adtsNums)
    /\ failedTiles' = failedTiles \cup {TileNumber(adtsNums, currentAdt)}
    /\ cpc' = "aborted"
    /\ UNCHANGED <<cargc, adtsOffsets, adtsNums, currentAdt, adtFiles, writeCount, wdtWritten>>

\* currentAdt < adtTotalNum is false: return 0.
LoopEnd ==
    /\ UNCHANGED fixVars
    /\ cpc = "loop"
    /\ currentAdt >= Len(adtsNums)
    /\ cpc' = "done"
    /\ UNCHANGED <<cargc, adtsOffsets, adtsNums, currentAdt, adtFiles, writeCount,
                   failedTiles, wdtWritten>>

\* ---------------------------------------------------------- specifications
NextFix ==
    \/ CheckArgs
    \/ OpenInput
    \/ StepOk
    \/ StepThrow
    \/ SaveFail
    \/ SaveOk
    \/ Rerun

NextConv ==
    \/ ConvArgs
    \/ ConvWdt
    \/ TileOk
    \/ TileThrow
    \/ LoopEnd

SpecFix == InitFix /\ [][NextFix]_vars
SpecConv == InitConv /\ [][NextConv]_vars

\* ------------------------------------------------------------------ claims
HasFile(p) == fs[p] # Absent
IndexOf(f) == f[ScanTags(f, "MCIN", 1)[1]].body
HasIndex(f) == ScanTags(f, "MCIN", 1) # << >>
McnkCount(f) == Len(ScanTags(f, "MCNK", 1))
Placements(f) == {k \in 1 .. Len(f) : f[k].tag \in {"MDDF", "MODF"}}
ClaimedOrder == <<"findMCNKs", "findMDDFandMODF", "fixMCNKs", "fixDoodads", "fixWMOs">>
WrittenTiles == {t \in Tiles : adtFiles[t] # NoAreaFile}

\* C1: when the conversion run has ended, every existing tile that did not itself
\* fail has its area file written, whichever other tile failed.
C1_FailedTileBlocksNoSibling ==
    cpc \in {"done", "aborted"} =>
        \A i \in 1 .. Len(adtsNums) :
            adtsNums[i] \notin failedTiles => adtFiles[adtsNums[i]] # NoAreaFile

\* C2: when a repair step has raised, the file being repaired holds the bytes it
\* held when the invocation started.
C2_FailedRepairLeavesInput ==
    threw # "none" => fs[inPath] = fs0[inPath]

\* C3: when a repair step has raised, the file at the output path holds what it
\* held when the invocation started (it was not created, truncated or written).
C3_FailedRepairLeavesOutput ==
    threw # "none" => fs[outPath] = fs0[outPath]

C5_OneAreaFilePerExistingTile ==
    /\ \A t \in Tiles :
          /\ writeCount[t] <= 1
          /\ (t \in WrittenTiles) <=> (writeCount[t] = 1)
          /\ t \in WrittenTiles =>
                /\ adtsOffsets[t] # 0
                /\ \E i \in 1 .. Len(adtsNums) : adtsNums[i] = t
                /\ adtFiles[t] = [num |-> t, offset |-> adtsOffsets[t]]
    /\ cpc = "done" =>
          /\ wdtWritten
          /\ WrittenTiles = {adtsNums[i] : i \in 1 .. Len(adtsNums)}
          /\ WrittenTiles = {t \in Tiles : adtsOffsets[t] # 0}

\* A completed run over a table with two existing tiles and tile 0 absent.
C5_Witness ==
    /\ cpc = "done"
    /\ Cardinality(WrittenTiles) = 2
    /\ adtFiles[0] = NoAreaFile
    /\ \E t \in WrittenTiles : adtsOffsets[t] # adtsOffsets[0] /\ adtsOffsets[t] # t

C7_IndexCompleteAndExact ==
    pc = "save" =>
        LET f == fs[inPath]
            e == IndexOf(f)
        IN  /\ HasIndex(f)
            /\ \A i \in Slots :
                  /\ (e[i].offset # 0 \/ e[i].size # 0) <=> (i < McnkCount(f))
                  /\ i < McnkCount(f) =>
                        LET k == ChunkAt(f, e[i].offset)
                        IN  /\ k # 0
                            /\ f[k].tag = "MCNK"
                            /\ e[i].size = f[k].len
                            /\ Cardinality({j \in 1 .. k : f[j].tag = "MCNK"}) = i + 1
                  /\ i >= McnkCount(f) => e[i].offset = 0 /\ e[i].size = 0

\* A repaired file whose index was all zeros, with some but not all tiles present.
C7_Witness ==
    /\ pc = "save" /\ pass = 1
    /\ HasIndex(fs0[inPath])
    /\ \A i \in Slots : IndexOf(fs0[inPath])[i].offset = 0 /\ IndexOf(fs0[inPath])[i].size = 0
    /\ McnkCount(fs[inPath]) >= 1
    /\ McnkCount(fs[inPath]) < NumSlots

\* C8: whenever the file being repaired has an index, the two reserved fields of
\* each of its entries are those the file had when the invocation started.
C8_ReservedFieldsKept ==
    (HasIndex(fs[inPath]) /\ HasIndex(fs0[inPath])) =>
        \A i \in Slots :
            /\ IndexOf(fs[inPath])[i].temp1 = IndexOf(fs0[inPath])[i].temp1
            /\ IndexOf(fs[inPath])[i].temp2 = IndexOf(fs0[inPath])[i].temp2

\* A repaired file with non-zero reserved fields whose offsets were all rewritten.
C8_Witness ==
    /\ pc = "save" /\ pass = 1
    /\ \A i \in Slots :
          /\ IndexOf(fs[inPath])[i].temp1 # 0
          /\ IndexOf(fs[inPath])[i].temp2 # 0
          /\ IndexOf(fs[inPath])[i].offset # IndexOf(fs0[inPath])[i].offset

\* C9: after the five steps, every placement record is the record the file had
\* when the invocation started with the delta added to its position and nothing
\* else changed; the delta is 0 and every position is unchanged.
C9_PositionsShiftedByDelta ==
    pc = "save" =>
        LET b == fs0[inPath]
            a == fs[inPath]
        IN  /\ Len(a) = Len(b)
            /\ Delta(offData.offset) = <<0, 0, 0>>
            /\ \A k \in Placements(b) :
                  /\ a[k].tag = b[k].tag /\ a[k].len = b[k].len
                  /\ DOMAIN a[k].body = DOMAIN b[k].body
                  /\ \A j \in DOMAIN b[k].body :
                        /\ a[k].body[j] =
                              [b[k].body[j] EXCEPT !.pos = Shift(@, Delta(offData.offset))]
                        /\ a[k].body[j].pos = b[k].body[j].pos

\* A repaired file that was changed and holds doodad and object records.
C9_Witness ==
    /\ pc = "save" /\ pass = 1
    /\ Cardinality(Placements(fs[inPath])) = 2
    /\ \A k \in Placements(fs[inPath]) : Len(fs[inPath][k].body) >= 1
    /\ fs[inPath] # fs0[inPath]

\* C10: the steps that completed are an initial part of the order findMCNKs,
\* findMDDFandMODF, fixMCNKs, fixDoodads, fixWMOs; a step that raised is the one
\* after the last completed step and ends the run; until both scans have
\* completed the file is unchanged, and the offsets the patch steps use are those
\* of the file as it was when the invocation started.
C10_ScanBeforePatch ==
    /\ Len(log) <= Len(ClaimedOrder)
    /\ log = SubSeq(ClaimedOrder, 1, Len(log))
    /\ pc \in Steps => pc = ClaimedOrder[Len(log) + 1]
    /\ pc = "save" => log = ClaimedOrder
    /\ threw # "none" => pc = "exit" /\ threw = ClaimedOrder[Len(log) + 1]
    /\ Len(log) <= 2 => fs[inPath] = fs0[inPath]
    /\ Len(log) >= 2 =>
          LET f == fs0[inPath]
          IN  /\ \A i \in Slots : i < McnkCount(f) =>
                    offData.positionsMCNK[i] = ChunkPos(f, ScanTags(f, "MCNK", 1)[i + 1])
              /\ TagAt(f, offData.offsetMDDF, "MDDF")
              /\ TagAt(f, offData.offsetMODF, "MODF")

\* A run in which the last step raised after the index had been rewritten.
C10_Witness ==
    /\ pc = "exit" /\ threw = "fixWMOs"
    /\ Len(log) = 4
    /\ fs[inPath] # fs0[inPath]

====
